---- MODULE Spec2Model ----
(***************************************************************************)
(* Model of the news scraper scripts (ibtihel_scrapFile.py,                *)
(* oumaima-scrap.py, miriam-scrap.py): URL normalisation, the body         *)
(* extraction cascade of parse_article, the de-duplication keys and the    *)
(* run loop of main() with its CSV store.                                  *)
(*                                                                         *)
(* Strings.  A URL is kept as its scheme, its netloc and the rest of the   *)
(* string as a sequence of characters ("tokens"); a multi-letter word      *)
(* that no parser looks into (a parameter name such as utm_source, an      *)
(* escape such as %20) is one token.  Page texts are long (the thresholds  *)
(* are 200, 800 and 4000 characters), so a text is kept run-length         *)
(* encoded: a sequence of <<character, count>> runs in which neighbouring  *)
(* runs differ and no count is 0.  Two texts are equal exactly when their  *)
(* encodings are equal.                                                    *)
(***************************************************************************)
EXTENDS Integers, Sequences, FiniteSets, TLC

VARIABLES
    url,        \* SpecUrl: the URL handed to normalize_url (structured source)
    variant,    \* SpecUrl: a URL that differs from url only in tracking parameters / fragment
    n1,         \* SpecUrl: normalize_url(url), or NoUrl before the call
    n2,         \* SpecUrl: normalize_url(n1), or NoUrl before the call
    nv,         \* SpecUrl: normalize_url(variant), or NoUrl before the call
    script,     \* which script runs: "ibtihel" (miriam's parse_article is the same) or "oumaima"
    page,       \* SpecParse: the fetched page parse_article works on
    amp_doc,    \* SpecParse: the result of fetching the page's AMP link (<<>>: it failed)
    pstage,     \* SpecParse: position in parse_article ("raised": an exception left it)
    content_text, \* SpecParse: parse_article's current best text
    result,     \* SpecParse: <<row>> returned by parse_article, <<>> for None
    amp_fetches, \* SpecParse: AMP pages requested so far
    csv,        \* the output file: its state ("absent", "empty", "table") and its data rows
    web,        \* which version of the site the fetches see
    pc,         \* position of main(): "idle", "ensured", "loop", "done", "aborted"
    runs,       \* runs of main() started so far
    seen_ids, seen_content,         \* keys loaded from the file by load_existing_keys
    seen_run_ids, seen_run_content, \* keys accepted in this run
    new_rows,   \* records accepted in this run
    row,        \* what parse_article returned for the last entry (<<>> for None)
    links,      \* the entry links this run has gone through
    prev_links, \* replay: the entry links of the previous run
    replay,     \* this run sees the feed entries and pages of the previous run
    start_rows, \* the data rows of the file when this run loaded its keys
    log         \* what main() did on the network and the clock in this run, in order:
                \* "fetch" for fetch(url) of an article page, "sleep" for time.sleep

urlvars == <<url, variant, n1, n2, nv>>

parsevars == <<page, amp_doc, pstage, content_text, result, amp_fetches>>

mainvars == <<csv, web, pc, runs, seen_ids, seen_content, seen_run_ids, seen_run_content,
              new_rows, row, links, prev_links, replay, start_rows, log>>

\* "not computed yet" for a URL-valued variable
NoUrl == [scheme |-> "", netloc |-> "", rest |-> <<>>]

(***************************************************************************)
(* Sequence helpers (Python str.find / rfind / slicing / split / rstrip).  *)
(***************************************************************************)
Take(s, n) == SubSeq(s, 1, n)

Drop(s, n) == SubSeq(s, n + 1, Len(s))

\* str.find(c) as a 1-based index, 0 when absent
IndexOf(s, c) ==
    IF \E i \in 1..Len(s) : s[i] = c
    THEN CHOOSE i \in 1..Len(s) : s[i] = c /\ \A j \in 1..(i - 1) : s[j] # c
    ELSE 0

\* str.find(c, start): first index >= from holding c, 0 when absent
IndexFrom(s, c, from) ==
    IF \E i \in from..Len(s) : s[i] = c
    THEN CHOOSE i \in from..Len(s) : s[i] = c /\ \A j \in from..(i - 1) : s[j] # c
    ELSE 0

\* str.rfind(c) as a 1-based index, 0 when absent
RIndexOf(s, c) ==
    IF \E i \in 1..Len(s) : s[i] = c
    THEN CHOOSE i \in 1..Len(s) : s[i] = c /\ \A j \in (i + 1)..Len(s) : s[j] # c
    ELSE 0

RECURSIVE rstrip(_, _)
rstrip(s, c) ==
    IF s # <<>> /\ s[Len(s)] = c THEN rstrip(Take(s, Len(s) - 1), c) ELSE s

RECURSIVE Split(_, _)
\* str.split(sep): the pieces between separators (empty pieces kept)
Split(s, sep) ==
    LET i == IndexOf(s, sep)
    IN  IF i = 0 THEN <<s>> ELSE <<Take(s, i - 1)>> \o Split(Drop(s, i), sep)

RECURSIVE Join(_, _)
\* sep.join(parts)
Join(parts, sep) ==
    IF parts = <<>> THEN <<>>
    ELSE IF Len(parts) = 1 THEN parts[1]
    ELSE parts[1] \o <<sep>> \o Join(Tail(parts), sep)

(***************************************************************************)
(* URL normalisation.                                                      *)
(***************************************************************************)
STRIP_QUERY_PARAMS ==
    { <<"utm_source">>, <<"utm_medium">>, <<"utm_campaign">>, <<"utm_term">>,
      <<"utm_content">>, <<"at_medium">>, <<"at_campaign">>, <<"at_custom1">>,
      <<"ns_mchannel">>, <<"ns_source">>, <<"ns_campaign">> }

\* str.lower() on the scheme and netloc strings the model uses
lower(s) ==
    CASE s = "HTTP" -> "http"
      [] s = "A.COM" -> "a.com"
      [] s = "B.COM" -> "b.com"
      [] OTHER -> s

\* urllib _splitparams: the parameters of the last path segment
splitparams(p) ==
    LET r == RIndexOf(p, "/")
        i == IF r > 0 THEN IndexFrom(p, ";", r) ELSE IndexOf(p, ";")
    IN  IF i = 0 THEN [path |-> p, params |-> <<>>]
        ELSE [path |-> Take(p, i - 1), params |-> Drop(p, i)]

\* urllib urlparse: scheme (lower-cased), netloc, path, params, query, fragment
urlparse(u) ==
    LET h  == IndexOf(u.rest, "#")
        b  == IF h = 0 THEN u.rest ELSE Take(u.rest, h - 1)
        fr == IF h = 0 THEN <<>> ELSE Drop(u.rest, h)
        q  == IndexOf(b, "?")
        pp == IF q = 0 THEN b ELSE Take(b, q - 1)
        qs == IF q = 0 THEN <<>> ELSE Drop(b, q)
        sp == IF IndexOf(pp, ";") > 0 THEN splitparams(pp)
              ELSE [path |-> pp, params |-> <<>>]
    IN  [scheme |-> lower(u.scheme), netloc |-> u.netloc, path |-> sp.path,
         params |-> sp.params, query |-> qs, fragment |-> fr]

\* urllib unquote after replace('+', ' '), one character
unquote1(c) ==
    CASE c = "+"   -> " "
      [] c = "%20" -> " "
      [] c = "%26" -> "&"
      [] c = "%3D" -> "="
      [] c = "%3B" -> ";"
      [] OTHER     -> c

unquote(s) == [i \in 1..Len(s) |-> unquote1(s[i])]

\* urllib quote_plus, one character
quote_plus1(c) ==
    CASE c = " " -> "+"
      [] c = "&" -> "%26"
      [] c = "=" -> "%3D"
      [] c = ";" -> "%3B"
      [] c = "/" -> "%2F"
      [] c = "?" -> "%3F"
      [] OTHER   -> c

quote_plus(s) == [i \in 1..Len(s) |-> quote_plus1(s[i])]

\* one name=value field of parse_qsl(keep_blank_values=True)
qsl_field(nvs) ==
    LET e == IndexOf(nvs, "=")
    IN  IF e = 0 THEN <<unquote(nvs), <<>> >>
        ELSE <<unquote(Take(nvs, e - 1)), unquote(Drop(nvs, e))>>

RECURSIVE qsl_fields(_)
qsl_fields(parts) ==
    IF parts = <<>> THEN <<>>
    ELSE (IF parts[1] = <<>> THEN <<>> ELSE <<qsl_field(parts[1])>>)
         \o qsl_fields(Tail(parts))

\* urllib parse_qsl(qs, keep_blank_values=True): the decoded (name, value) pairs in order
parse_qsl(qs) == IF qs = <<>> THEN <<>> ELSE qsl_fields(Split(qs, "&"))

\* d[k] = v on an insertion-ordered dict kept as a sequence of <<k, v>>
dict_set(d, k, v) ==
    IF \E i \in 1..Len(d) : d[i][1] = k
    THEN [i \in 1..Len(d) |-> IF d[i][1] = k THEN <<k, v>> ELSE d[i]]
    ELSE Append(d, <<k, v>>)

RECURSIVE dict_from(_, _)
dict_from(d, pairs) ==
    IF pairs = <<>> THEN d
    ELSE dict_from(dict_set(d, pairs[1][1], pairs[1][2]), Tail(pairs))

\* {k: v for k, v in pairs if k not in STRIP_QUERY_PARAMS}
strip_params_dict(pairs) ==
    dict_from(<<>>, SelectSeq(pairs, LAMBDA kv : kv[1] \notin STRIP_QUERY_PARAMS))

\* urllib urlencode(q, doseq=True) for string values
urlencode(q) ==
    Join([i \in 1..Len(q) |-> quote_plus(q[i][1]) \o <<"=">> \o quote_plus(q[i][2])], "&")

\* urllib urlunparse / urlunsplit for a URL with a netloc
urlunparse(p) ==
    LET u1 == IF p.params # <<>> THEN p.path \o <<";">> \o p.params ELSE p.path
        u2 == IF u1 # <<>> /\ u1[1] # "/" THEN <<"/">> \o u1 ELSE u1
        u3 == IF p.query # <<>> THEN u2 \o <<"?">> \o p.query ELSE u2
        u4 == IF p.fragment # <<>> THEN u3 \o <<"#">> \o p.fragment ELSE u3
    IN  [scheme |-> p.scheme, netloc |-> p.netloc, rest |-> u4]

\* urlparse(u) raises ValueError("Invalid IPv6 URL"): one bracket of the
\* netloc without the other
urlparse_raises(u) ==
    u.netloc \in {"[a.com", "a.com]"}

\* normalize_url(u) does not return: it has no handler around urlparse
normalize_url_raises(u) == urlparse_raises(u)

normalize_url_keepfragment(u) ==
    LET p == urlparse(u)
        q == strip_params_dict(parse_qsl(p.query))
    IN  urlunparse([scheme |-> lower(p.scheme), netloc |-> lower(p.netloc),
                    path |-> rstrip(p.path, "/"), params |-> p.params,
                    query |-> urlencode(q), fragment |-> p.fragment])

normalize_url(u) ==
    LET p == urlparse(u)
        q == strip_params_dict(parse_qsl(p.query))
    IN  urlunparse([scheme |-> lower(p.scheme), netloc |-> lower(p.netloc),
                    path |-> rstrip(p.path, "/"), params |-> p.params,
                    query |-> urlencode(q), fragment |-> <<>>])

(***************************************************************************)
(* Texts (run-length encoded strings).                                     *)
(***************************************************************************)
\* the text of n copies of character c
Rep(c, n) == IF n = 0 THEN <<>> ELSE << <<c, n>> >>

RECURSIVE TLen(_)
\* len(t)
TLen(t) == IF t = <<>> THEN 0 ELSE t[1][2] + TLen(Tail(t))

\* a + b
TCat(a, b) ==
    IF a = <<>> THEN b
    ELSE IF b = <<>> THEN a
    ELSE IF a[Len(a)][1] = b[1][1]
         THEN Take(a, Len(a) - 1) \o << <<b[1][1], a[Len(a)][2] + b[1][2]>> >> \o Tail(b)
         ELSE a \o b

RECURSIVE TPrefix(_, _)
\* t[:n]
TPrefix(t, n) ==
    IF t = <<>> \/ n <= 0 THEN <<>>
    ELSE IF t[1][2] <= n THEN <<t[1]>> \o TPrefix(Tail(t), n - t[1][2])
    ELSE << <<t[1][1], n>> >>

Whitespace == {" ", "\n"}

RECURSIVE TLStrip(_)
TLStrip(t) == IF t # <<>> /\ t[1][1] \in Whitespace THEN TLStrip(Tail(t)) ELSE t

RECURSIVE TRStrip(_)
TRStrip(t) ==
    IF t # <<>> /\ t[Len(t)][1] \in Whitespace THEN TRStrip(Take(t, Len(t) - 1)) ELSE t

\* t.strip()
TStrip(t) == TRStrip(TLStrip(t))

RECURSIVE TJoin(_, _)
\* sep.join(parts) on texts
TJoin(parts, sep) ==
    IF parts = <<>> THEN <<>>
    ELSE IF Len(parts) = 1 THEN parts[1]
    ELSE TCat(TCat(parts[1], sep), TJoin(Tail(parts), sep))

(***************************************************************************)
(* Documents.  A fetched page (BeautifulSoup(html)) is the record of what  *)
(* the extraction code reads from it:                                      *)
(*   canonical   href of <link rel=canonical>, NoUrl when absent           *)
(*   h1, og      text of the first <h1> / content of og:title, <<>> absent *)
(*   readable    <<text>> of the readability summary, <<>> when it raises  *)
(*   paras       the <p> nodes in document order, each with its visible    *)
(*               text, its class list and its ancestors (nearest first)    *)
(*   jsonld      the ld+json script blocks in order                        *)
(*   amp         href of <link rel=amphtml>, NoUrl when absent             *)
(* A fetch result is <<page>> or <<>> (the request raised).                *)
(***************************************************************************)
MIN_PARA == 3               \* clean_join: shortest paragraph kept

CASCADE_THRESHOLD == 800    \* a later stage runs only below this length

MIN_CONTENT == 200          \* thin-content gate

HASH_PREFIX == 4000         \* characters of content entering content_hash

BadMarkers == {"promo", "share", "related", "advert", "cookie"}

BadAncestors == {"figure", "figcaption", "aside", "header", "footer", "nav"}

\* the boilerplate markers that occur as substrings of a lower-cased class name
MarkersIn(c) ==
    CASE c = "advert-box"    -> {"advert"}
      [] c = "PROMO"         -> {"promo"}
      [] c = "share-tools"   -> {"share"}
      [] c = "related-links" -> {"related"}
      [] c = "cookie-banner" -> {"cookie"}
      [] c = "unrelated"     -> {"related"}
      [] OTHER               -> {}

\* any(bad in " ".join(classes).lower() for bad in markers)
class_is_bad(classes) ==
    \E i \in 1..Len(classes) : MarkersIn(classes[i]) \cap BadMarkers # {}

\* the ancestor loop of clean_join
ancestor_is_bad(p) ==
    \E i \in 1..Len(p.ancs) :
        \/ p.ancs[i].name \in BadAncestors
        \/ class_is_bad(p.ancs[i].cls)

\* p.get_text(" ", strip=True) of a <p> holding one string
get_text(p) == TStrip(p.txt)

\* a clean_join that looks at the paragraph's own class only
clean_join_own_class(paras) ==
    LET keep(p) == /\ ~(get_text(p) = <<>> \/ TLen(get_text(p)) < MIN_PARA)
                   /\ ~class_is_bad(p.cls)
        kept == SelectSeq(paras, keep)
    IN  TStrip(TJoin([i \in 1..Len(kept) |-> get_text(kept[i])], Rep("\n", 2)))

\* clean_join(paras)
clean_join(paras) ==
    LET keep(p) == /\ ~(get_text(p) = <<>> \/ TLen(get_text(p)) < MIN_PARA)
                   /\ ~class_is_bad(p.cls)
                   /\ ~ancestor_is_bad(p)
        kept == SelectSeq(paras, keep)
    IN  TStrip(TJoin([i \in 1..Len(kept) |-> get_text(kept[i])], Rep("\n", 2)))

\* the element tests the selectors of parse_article are built from
is_text_block(e) == e.dc = "text-block"

is_article(e) == e.name = "article"

is_main(e) == e.name = "main"

is_rich_text(e) == \E i \in 1..Len(e.cls) : e.cls[i] = "RichTextComponentWrapper"

\* the compound selector sel applied to one ancestor element
matches(sel, e) ==
    CASE sel = "[data-component=\"text-block\"] p" -> is_text_block(e)
      [] sel = "article p" -> is_article(e)
      [] sel = "main p" -> is_main(e)
      [] sel = "[class*=\"RichTextComponentWrapper\"] p" -> is_rich_text(e)

\* soup.select(sel): the <p> elements with a matching ancestor, in document order
select_p(d, sel) ==
    SelectSeq(d.paras, LAMBDA p : \E i \in 1..Len(p.ancs) : matches(sel, p.ancs[i]))

\* x or y on lists
OrElse(x, y) == IF x # <<>> THEN x ELSE y

\* the selector chain of stage 2 (ibtihel, miriam)
select_body(d) ==
    OrElse(select_p(d, "[data-component=\"text-block\"] p"),
    OrElse(select_p(d, "article p"),
    OrElse(select_p(d, "main p"), select_p(d, "[class*=\"RichTextComponentWrapper\"] p"))))

\* the selector chain of the AMP stage and of oumaima's stage 2
select_generic(d) ==
    OrElse(select_p(d, "article p"), OrElse(select_p(d, "main p"), d.paras))

(***************************************************************************)
(* The body-extraction cascade of parse_article.                           *)
(***************************************************************************)
\* 1) Readability
stage1(d) == IF d.readable = <<>> THEN <<>> ELSE d.readable[1]

\* 2) selectors (ibtihel, miriam)
stage2(d, ct) ==
    IF TLen(ct) < CASCADE_THRESHOLD
    THEN LET paras == select_body(d)
         IN  IF paras # <<>> /\ TLen(clean_join(paras)) > TLen(ct)
             THEN clean_join(paras) ELSE ct
    ELSE ct

\* 2) selectors (oumaima): the result replaces the text unconditionally
stage2_oumaima(d, ct) ==
    IF TLen(ct) < CASCADE_THRESHOLD
    THEN clean_join(select_generic(d))
    ELSE ct

RECURSIVE jsonld_objs(_, _)
\* the loop over the objects of one parsed script
jsonld_objs(objs, ct) ==
    IF objs = <<>> THEN ct
    ELSE LET obj == objs[1]
             nxt == IF /\ obj.type \in {"NewsArticle", "Article"}
                       /\ obj.body # <<>>
                       /\ TLen(obj.body[1]) > TLen(ct)
                    THEN TStrip(obj.body[1]) ELSE ct
         IN  jsonld_objs(Tail(objs), nxt)

RECURSIVE jsonld_scripts(_, _)
\* the loop over the ld+json scripts, left at the first result of 800 or more
jsonld_scripts(scripts, ct) ==
    IF scripts = <<>> THEN ct
    ELSE IF ~scripts[1].ok THEN jsonld_scripts(Tail(scripts), ct)
    ELSE LET nxt == jsonld_objs(scripts[1].objs, ct)
         IN  IF TLen(nxt) >= CASCADE_THRESHOLD THEN nxt
             ELSE jsonld_scripts(Tail(scripts), nxt)

stage3_always(d, ct) == jsonld_scripts(d.jsonld, ct)

\* 3) JSON-LD articleBody
stage3(d, ct) ==
    IF TLen(ct) < CASCADE_THRESHOLD
    THEN jsonld_scripts(d.jsonld, ct)
    ELSE ct

\* 4) AMP fallback: is the AMP page requested?
amp_requested(d, ct) ==
    TLen(ct) < CASCADE_THRESHOLD /\ d.amp # NoUrl

\* an AMP stage whose failure costs the text found so far
stage4_unguarded(d, ct, amp_fetched) ==
    IF amp_requested(d, ct)
    THEN IF amp_fetched = <<>> THEN <<>>
         ELSE LET amp_text == clean_join(select_generic(amp_fetched[1]))
              IN  IF TLen(amp_text) > TLen(ct) THEN amp_text ELSE ct
    ELSE ct

\* 4) AMP fallback; amp_fetched is the AMP page the try block got, <<>> when an
\* exception ended the block (fetch(amp) or the parsing after it raised)
stage4(d, ct, amp_fetched) ==
    IF amp_requested(d, ct) /\ amp_fetched # <<>>
    THEN LET amp_text == clean_join(select_generic(amp_fetched[1]))
         IN  IF TLen(amp_text) > TLen(ct) THEN amp_text ELSE ct
    ELSE ct

is_thin_100(ct) == TLen(TStrip(ct)) < 100

\* the thin-content gate
is_thin(ct) == TLen(TStrip(ct)) < MIN_CONTENT

(***************************************************************************)
(* De-duplication keys and the record parse_article returns.               *)
(* SHA-1 is taken to be collision-free: a digest is named by its input.    *)
(* zeros_dropped is FALSE for a digest as hexdigest()[:12] prints it; see  *)
(* load_existing_keys for the other value.                                 *)
(***************************************************************************)
\* hashlib.sha1(s.encode()).hexdigest()[:12]
id_digest(u) == [sha1_12 |-> u, zeros_dropped |-> FALSE]

\* title + "|" + content_text[:4000]
hash_input(title, ct) ==
    TCat(TCat(title, Rep("|", 1)), TPrefix(ct, HASH_PREFIX))

\* hashlib.sha1(s.encode("utf-8", "ignore")).hexdigest()
content_digest(t) == [sha1 |-> t]

\* h1 text, else og:title, else ""
page_title(d) ==
    IF d.h1 # <<>> THEN d.h1[1] ELSE IF d.og # <<>> THEN d.og[1] ELSE <<>>

\* (soup.find("link", rel="canonical") or {}).get("href") or url, normalised
page_canonical(d, u) ==
    normalize_url(IF d.canonical # NoUrl THEN d.canonical ELSE u)

\* the request URL, whatever the page declares
id_source_request(d, u) == normalize_url(u)

\* canonical or norm_url
id_source(d, u) ==
    IF page_canonical(d, u) # NoUrl THEN page_canonical(d, u) ELSE normalize_url(u)

\* the dict parse_article returns (tags, source, author, image and date left out)
make_row(d, u, category, ct) ==
    [id_article   |-> id_digest(id_source(d, u)),
     title        |-> page_title(d),
     content      |-> TStrip(ct),
     url          |-> id_source(d, u),
     category     |-> category,
     content_hash |-> content_digest(hash_input(page_title(d), ct))]

\* the whole cascade; amp_fetched is the result of fetch(amp) should it be requested
cascade(d, amp_fetched) ==
    IF script = "oumaima" THEN stage2_oumaima(d, stage1(d))
    ELSE stage4(d, stage3(d, stage2(d, stage1(d))), amp_fetched)

\* parse_article(url, category); fetched is the result of fetch(url)
parse_article(u, category, fetched, amp_fetched) ==
    IF fetched = <<>> THEN <<>>
    ELSE IF is_thin(cascade(fetched[1], amp_fetched)) THEN <<>>
    ELSE <<make_row(fetched[1], u, category, cascade(fetched[1], amp_fetched))>>

\* parse_article(url, category) does not return: an exception leaves it.  The
\* fetch has its own handler; normalize_url(canonical) has none.
parse_article_raises(u, fetched) ==
    /\ fetched # <<>>
    /\ normalize_url_raises(IF fetched[1].canonical # NoUrl THEN fetched[1].canonical ELSE u)

(***************************************************************************)
(* SpecParse: parse_article, stage by stage, on pages drawn from bounded   *)
(* sets.                                                                   *)
(***************************************************************************)
Scripts == {"ibtihel", "oumaima"}

X(n) == Rep("x", n)

Elem(name, cls, dc) == [name |-> name, cls |-> cls, dc |-> dc]

Para(txt, cls, ancs) == [txt |-> txt, cls |-> cls, ancs |-> ancs]

Article == Elem("article", <<>>, "")

Body == Elem("body", <<>>, "")

ParaSamples ==
    { <<>>,
      << Para(X(300), <<>>, <<Article, Body>>),
         Para(X(400), <<"story", "advert-box">>, <<Article, Body>>),
         Para(X(2), <<>>, <<Article, Body>>) >>,
      << Para(X(600), <<>>, <<Elem("main", <<>>, ""), Body>>),
         Para(X(250), <<>>, <<Elem("main", <<>>, ""), Body>>) >>,
      << Para(X(850), <<>>, <<Elem("div", <<"story">>, ""), Body>>) >>,
      << Para(X(100), <<>>, <<Elem("div", <<>>, "text-block"), Article, Body>>),
         Para(X(700), <<>>, <<Article, Body>>) >>,
      << Para(X(500), <<>>, <<Elem("aside", <<>>, ""), Article, Body>>),
         Para(X(210), <<>>, <<Elem("div", <<"RichTextComponentWrapper">>, ""), Body>>) >> }

ReadSamples == { <<>>, << <<>> >>, <<X(150)>>, <<X(500)>>, <<X(799)>>, <<X(800)>>, <<X(900)>> }

Ld(type, body) == [type |-> type, body |-> body]

Script(objs) == [ok |-> TRUE, objs |-> objs]

BadScript == [ok |-> FALSE, objs |-> <<>>]

JsonSamples ==
    { <<>>,
      <<BadScript>>,
      <<Script(<<Ld("Article", <<TCat(Rep(" ", 5), X(496))>>)>>)>>,
      <<Script(<<Ld("NewsArticle", <<X(820)>>), Ld("Article", <<X(100)>>)>>)>>,
      <<BadScript, Script(<<Ld("Article", <<X(250)>>)>>)>>,
      <<Script(<<Ld("WebPage", <<X(900)>>), Ld("Article", <<>>)>>)>>,
      <<Script(<<Ld("Article", <<X(850)>>)>>), Script(<<Ld("Article", <<X(5000)>>)>>)>> }

PageUrl == [scheme |-> "http", netloc |-> "a.com", rest |-> <<"/", "s">>]

AmpUrl == [scheme |-> "http", netloc |-> "a.com", rest |-> <<"/", "s", "/", "amp">>]

Page(canonical, h1, readable, paras, jsonld, amp) ==
    [canonical |-> canonical, h1 |-> h1, og |-> <<>>, readable |-> readable,
     paras |-> paras, jsonld |-> jsonld, amp |-> amp]

AmpPage(paras) == Page(NoUrl, <<>>, <<>>, paras, <<>>, NoUrl)

\* a link that urlparse rejects
UrlBad == [scheme |-> "http", netloc |-> "[a.com", rest |-> <<"/", "s">>]

\* href of <link rel="canonical">: none, an absolute link with a tracking
\* parameter, the site root as a relative link, a link that urlparse rejects
CanonicalSamples ==
    { NoUrl,
      [scheme |-> "HTTP", netloc |-> "A.COM",
       rest |-> <<"/", "c", "/", "?", "utm_source", "=", "1">>],
      [scheme |-> "", netloc |-> "", rest |-> <<"/">>],
      UrlBad }

\* <<amp href, result of fetching it>>
AmpSamples ==
    { <<NoUrl, <<>> >>,
      <<AmpUrl, <<>> >>,
      <<AmpUrl, <<AmpPage(<< Para(X(300), <<>>, <<Article, Body>>) >>)>> >>,
      <<AmpUrl, <<AmpPage(<< Para(X(1000), <<>>, <<Body>>),
                             Para(X(50), <<"PROMO">>, <<Body>>) >>)>> >> }

\* value of the variables of main() in the specifications of the pure functions
MainIdle ==
    /\ csv = [state |-> "absent", rows |-> <<>>]
    /\ web = "first" /\ pc = "idle" /\ runs = 0
    /\ seen_ids = {} /\ seen_content = {} /\ seen_run_ids = {} /\ seen_run_content = {}
    /\ new_rows = <<>> /\ row = <<>>
    /\ links = <<>> /\ prev_links = <<>> /\ replay = FALSE /\ start_rows = <<>>
    /\ log = <<>>

\* value of the SpecUrl inputs in the other specifications
IdleUrl == [origin |-> <<"http", "a.com">>, path |-> <<>>, fields |-> <<>>, frag |-> <<>>]

ParseIdle ==
    /\ page = AmpPage(<<>>) /\ amp_doc = <<>> /\ pstage = "done"
    /\ content_text = <<>> /\ result = <<>> /\ amp_fetches = 0

UrlIdle ==
    /\ url = IdleUrl /\ variant = IdleUrl
    /\ n1 = NoUrl /\ n2 = NoUrl /\ nv = NoUrl

InitParse ==
    /\ script \in Scripts
    /\ \E c \in CanonicalSamples, r \in ReadSamples, ps \in ParaSamples,
          js \in JsonSamples, a \in AmpSamples :
          /\ page = Page(c, <<Rep("T", 5)>>, r, ps, js, a[1])
          /\ amp_doc = a[2]
    /\ pstage = "start"
    /\ content_text = <<>>
    /\ result = <<>>
    /\ amp_fetches = 0
    /\ UrlIdle
    /\ MainIdle

\* from the parsed page to the end of stage 1; normalize_url(canonical) comes
\* first and may raise
Readability ==
    /\ pstage = "start"
    /\ IF parse_article_raises(PageUrl, <<page>>)
       THEN pstage' = "raised" /\ content_text' = content_text
       ELSE pstage' = "readability" /\ content_text' = stage1(page)
    /\ UNCHANGED <<script, page, amp_doc, result, amp_fetches, urlvars, mainvars>>

Selectors ==
    /\ pstage = "readability"
    /\ content_text' = IF script = "oumaima" THEN stage2_oumaima(page, content_text)
                       ELSE stage2(page, content_text)
    /\ pstage' = "selectors"
    /\ UNCHANGED <<script, page, amp_doc, result, amp_fetches, urlvars, mainvars>>

JsonLd ==
    /\ pstage = "selectors" /\ script # "oumaima"
    /\ content_text' = stage3(page, content_text)
    /\ pstage' = "jsonld"
    /\ UNCHANGED <<script, page, amp_doc, result, amp_fetches, urlvars, mainvars>>

Amp ==
    /\ pstage = "jsonld"
    /\ content_text' = stage4(page, content_text, amp_doc)
    /\ amp_fetches' = IF amp_requested(page, content_text) THEN amp_fetches + 1 ELSE amp_fetches
    /\ pstage' = "amp"
    /\ UNCHANGED <<script, page, amp_doc, result, urlvars, mainvars>>

Gate ==
    /\ \/ pstage = "amp"
       \/ pstage = "selectors" /\ script = "oumaima"
    /\ result' = IF is_thin(content_text) THEN <<>>
                 ELSE <<make_row(page, PageUrl, "World", content_text)>>
    /\ pstage' = "done"
    /\ UNCHANGED <<script, page, amp_doc, content_text, amp_fetches, urlvars, mainvars>>

NextParse ==
    \/ Readability
    \/ Selectors
    \/ JsonLd
    \/ Amp
    \/ Gate

(***************************************************************************)
(* SpecUrl: normalize_url applied to URLs drawn from bounded sets.         *)
(***************************************************************************)
MaxPairs == 2       \* query fields of an input URL

Origins == { <<"http", "a.com">>, <<"HTTP", "A.COM">> }

PathSamples ==
    { <<>>, <<"/", "s">>, <<"/", "s", "/">>, <<"/", "s", ";", "p">>,
      <<"/", "s", ";", "/">>, <<"/", "s", "/", ";", "p", "/">> }

TrackingFields == { <<"utm_source", "=", "1">>, <<"utm_source", "=", "2">>, <<"at_medium">> }

PlainFields == { <<"k", "=", "1">>, <<"k", "=", "%20">>, <<"j">> }

FieldSamples == TrackingFields \cup PlainFields

FragSamples == { <<>>, <<"?", "f">> }

RECURSIVE SeqsUpTo(_, _)
SeqsUpTo(S, n) ==
    IF n = 0 THEN { <<>> }
    ELSE LET shorter == SeqsUpTo(S, n - 1)
         IN  shorter \cup { Append(s, x) : s \in shorter, x \in S }

UrlInputs ==
    [origin : Origins, path : PathSamples,
     fields : SeqsUpTo(FieldSamples, MaxPairs), frag : FragSamples]

\* the URL string of a structured source
Render(s) ==
    [scheme |-> s.origin[1], netloc |-> s.origin[2],
     rest |-> s.path
              \o (IF s.fields = <<>> THEN <<>> ELSE <<"?">> \o Join(s.fields, "&"))
              \o (IF s.frag = <<>> THEN <<>> ELSE <<"#">> \o s.frag)]

\* the raw query fields that are not tracking parameters, in order
PlainOnly(fields) == SelectSeq(fields, LAMBDA f : f \notin TrackingFields)

\* w differs from s only in tracking query fields and in the fragment
SameButTracking(s, w) ==
    /\ w.origin = s.origin
    /\ w.path = s.path
    /\ PlainOnly(w.fields) = PlainOnly(s.fields)

InitUrl ==
    /\ url \in UrlInputs
    /\ variant = url
    /\ n1 = NoUrl /\ n2 = NoUrl /\ nv = NoUrl
    /\ script = "ibtihel"
    /\ ParseIdle
    /\ MainIdle

Normalize ==
    /\ n1 = NoUrl
    /\ n1' = normalize_url(Render(url))
    /\ UNCHANGED <<url, variant, n2, nv, script, parsevars, mainvars>>

Renormalize ==
    /\ n1 # NoUrl /\ n2 = NoUrl /\ variant = url
    /\ n2' = normalize_url(n1)
    /\ UNCHANGED <<url, variant, n1, nv, script, parsevars, mainvars>>

PickVariant ==
    /\ n1 # NoUrl /\ n2 = NoUrl /\ variant = url
    /\ \E w \in UrlInputs :
          /\ w # url
          /\ SameButTracking(url, w)
          /\ variant' = w
    /\ UNCHANGED <<url, n1, n2, nv, script, parsevars, mainvars>>

NormalizeVariant ==
    /\ variant # url /\ nv = NoUrl
    /\ nv' = normalize_url(Render(variant))
    /\ UNCHANGED <<url, variant, n1, n2, script, parsevars, mainvars>>

NextUrl ==
    \/ Normalize
    \/ Renormalize
    \/ PickVariant
    \/ NormalizeVariant

(***************************************************************************)
(* SpecJoin: clean_join on lists of <p> nodes drawn from a bounded set.    *)
(* The list is page.paras, the output goes to content_text.                *)
(***************************************************************************)
MaxParas == 2       \* <p> nodes in one list

\* <p> nodes: body text; a long paragraph of class advert-box; two characters
\* between blanks; three characters; empty; below an <aside>; below a <div>
\* of class "unrelated"; below a <div> of class "PROMO"
JoinParas ==
    { Para(Rep("b", 300), <<>>, <<Article, Body>>),
      Para(Rep("a", 400), <<"story", "advert-box">>, <<Article, Body>>),
      Para(<< <<" ", 2>>, <<"y", 2>>, <<" ", 2>> >>, <<>>, <<Body>>),
      Para(<< <<" ", 1>>, <<"z", 3>> >>, <<"story">>, <<Body>>),
      Para(<<>>, <<>>, <<Body>>),
      Para(Rep("s", 50), <<>>, <<Elem("aside", <<>>, ""), Article, Body>>),
      Para(Rep("u", 60), <<>>, <<Elem("div", <<"unrelated">>, ""), Body>>),
      Para(Rep("p", 70), <<>>, <<Elem("p", <<>>, ""), Elem("div", <<"PROMO">>, ""), Body>>) }

InitJoin ==
    /\ script = "ibtihel"
    /\ page \in { AmpPage(ps) : ps \in SeqsUpTo(JoinParas, MaxParas) }
    /\ amp_doc = <<>> /\ pstage = "start"
    /\ content_text = <<>> /\ result = <<>> /\ amp_fetches = 0
    /\ UrlIdle
    /\ MainIdle

CleanJoin ==
    /\ pstage = "start"
    /\ content_text' = clean_join(page.paras)
    /\ pstage' = "joined"
    /\ UNCHANGED <<script, page, amp_doc, result, amp_fetches, urlvars, mainvars>>

NextJoin == CleanJoin

(***************************************************************************)
(* The site the runs scrape.  PageUrl carries a story; RawA is a feed link *)
(* to it with a tracking parameter, a fragment and upper-case host; UrlB   *)
(* is another page that declares PageUrl as its canonical link; UrlC       *)
(* republishes the story of PageUrl word for word under its own URL; UrlG  *)
(* is a different story; UrlD is a thin page; UrlE does not answer; UrlH   *)
(* declares a canonical link that urlparse rejects, and UrlBad is such a   *)
(* link in a feed entry.                                                   *)
(* Between runs the story at PageUrl may be rewritten (web = "edited").    *)
(***************************************************************************)
RawA ==
    [scheme |-> "HTTP", netloc |-> "A.COM",
     rest |-> <<"/", "s", "/", "?", "utm_source", "=", "1", "#", "f">>]

UrlB == [scheme |-> "http", netloc |-> "a.com", rest |-> <<"/", "t">>]

UrlC == [scheme |-> "http", netloc |-> "b.com", rest |-> <<"/", "s">>]

UrlD == [scheme |-> "http", netloc |-> "a.com", rest |-> <<"/", "d">>]

UrlE == [scheme |-> "http", netloc |-> "a.com", rest |-> <<"/", "e">>]

UrlG == [scheme |-> "http", netloc |-> "a.com", rest |-> <<"/", "g">>]

UrlH == [scheme |-> "http", netloc |-> "a.com", rest |-> <<"/", "h">>]

CanonicalOfB ==
    [scheme |-> "http", netloc |-> "A.COM",
     rest |-> <<"/", "s", "?", "at_medium", "=", "1">>]

Story(canonical, title, text) ==
    Page(canonical, <<title>>, <<text>>, <<>>, <<>>, NoUrl)

TitleA == << <<"a", 1>>, <<"|", 1>>, <<"b", 1>> >>

TextA == << <<"c", 1>>, <<"x", 900>> >>

TitleG == << <<"a", 1>> >>

TextG == << <<"b", 1>>, <<"|", 1>>, <<"c", 1>>, <<"x", 900>> >>

\* fetch(url): <<page>>, or <<>> when requests raises
fetch(u) ==
    CASE u = PageUrl ->
            <<Story(NoUrl, TitleA, IF web = "first" THEN TextA ELSE Rep("y", 700))>>
      [] u = UrlB -> <<Story(CanonicalOfB, Rep("B", 4), Rep("z", 900))>>
      [] u = UrlC -> <<Story(NoUrl, TitleA, TextA)>>
      [] u = UrlG -> <<Story(NoUrl, TitleG, TextG)>>
      [] u = UrlD -> <<Story(NoUrl, Rep("D", 4), X(150))>>
      [] u = UrlH -> <<Story(UrlBad, Rep("H", 4), Rep("h", 900))>>
      [] OTHER    -> <<>>

\* the result of fetch(amp) for the AMP link of a fetched page, if it has one
fetch_amp(fetched) ==
    IF fetched # <<>> /\ fetched[1].amp # NoUrl THEN fetch(fetched[1].amp) ELSE <<>>

(***************************************************************************)
(* The CSV store.  to_csv writes a key as its text; read_csv infers a type *)
(* for each column: when every cell of id_article consists of decimal      *)
(* digits only the column is read as integers, and astype(str) prints an   *)
(* integer without the leading zeros its cell had.  Such ids exist:        *)
(* sha1("https://www.washingtonpost.com/politics/2024/article-2317")[:12]  *)
(* is "063430152397".  DecimalZeroIds names the URLs of the model whose    *)
(* id is of that kind; every other id holds a letter a-f.  A content_hash  *)
(* has 40 digits, too many for an integer column, and is read back as its  *)
(* text.                                                                   *)
(***************************************************************************)
DecimalZeroIds == { PageUrl }

is_decimal(id) == id.sha1_12 \in DecimalZeroIds

\* set(df["id_article"].astype(str)) after pd.read_csv
read_ids(rows) ==
    LET numeric == rows # <<>> /\ \A i \in 1..Len(rows) : is_decimal(rows[i].id_article)
    IN  { IF numeric THEN [rows[i].id_article EXCEPT !.zeros_dropped = TRUE]
          ELSE rows[i].id_article : i \in 1..Len(rows) }

read_hashes(rows) == { rows[i].content_hash : i \in 1..Len(rows) }

\* ensure_csv(path): write the header when the file is absent or empty
ensure_csv(f) ==
    IF f.state \in {"absent", "empty"} THEN [state |-> "table", rows |-> <<>>] ELSE f

\* load_existing_keys(path): <<ids, content hashes>>
load_existing_keys(f) ==
    IF f.state \in {"absent", "empty"} THEN << {}, {} >>
    ELSE << read_ids(f.rows), read_hashes(f.rows) >>

\* to_csv with mode="w": the file is written anew
append_rows_overwrite(f, rows) == IF rows # <<>> THEN [f EXCEPT !.rows = rows] ELSE f

\* pd.DataFrame(new_rows).to_csv(path, mode="a", header=False)
append_rows(f, rows) == IF rows # <<>> THEN [f EXCEPT !.rows = @ \o rows] ELSE f

(***************************************************************************)
(* main().                                                                 *)
(***************************************************************************)
MaxRuns == 2        \* runs of main() in one behaviour

MaxEntries == 2     \* feed entries one run goes through

\* an entry without a link
NoLink == NoUrl

FeedLinks == { RawA, PageUrl, UrlB, UrlC, UrlD, UrlE, UrlG, UrlH, UrlBad, NoLink }

accepts_ignoring_run_hashes(r) ==
    /\ ~(r.id_article \in seen_ids \/ r.id_article \in seen_run_ids)
    /\ ~(r.content_hash \in seen_content)

\* the two duplicate tests of the loop body, passed
accepts(r) ==
    /\ ~(r.id_article \in seen_ids \/ r.id_article \in seen_run_ids)
    /\ ~(r.content_hash \in seen_content \/ r.content_hash \in seen_run_content)

\* oumaima: "if link in seen_run_ids"; a URL is never the text of a digest
link_is_seen_id(link) == FALSE

Init ==
    /\ script \in Scripts
    /\ csv \in { [state |-> "absent", rows |-> <<>>],
                 [state |-> "empty", rows |-> <<>>],
                 [state |-> "table", rows |-> <<>>] }
    /\ web = "first" /\ pc = "idle" /\ runs = 0
    /\ seen_ids = {} /\ seen_content = {} /\ seen_run_ids = {} /\ seen_run_content = {}
    /\ new_rows = <<>> /\ row = <<>>
    /\ links = <<>> /\ prev_links = <<>> /\ replay = FALSE /\ start_rows = <<>>
    /\ log = <<>>
    /\ ParseIdle /\ UrlIdle

\* main(): ensure_csv(OUTPUT_CSV)
EnsureCsv ==
    /\ pc = "idle" /\ runs < MaxRuns
    /\ csv' = ensure_csv(csv)
    /\ runs' = runs + 1
    /\ pc' = "ensured"
    /\ UNCHANGED <<web, seen_ids, seen_content, seen_run_ids, seen_run_content, new_rows,
                   row, links, prev_links, replay, start_rows, log, script, parsevars,
                   urlvars>>

\* main(): load_existing_keys and the empty run-local sets
LoadKeys ==
    /\ pc = "ensured"
    /\ seen_ids' = load_existing_keys(csv)[1]
    /\ seen_content' = load_existing_keys(csv)[2]
    /\ seen_run_ids' = {} /\ seen_run_content' = {}
    /\ new_rows' = <<>>
    /\ start_rows' = csv.rows
    /\ pc' = "loop"
    /\ UNCHANGED <<csv, web, runs, row, links, prev_links, replay, log, script, parsevars,
                   urlvars>>

\* an exception leaves main() while it handles the entry whose link field is e:
\* normalize_url(link) stands before the try of ibtihel's loop body and inside
\* oumaima's get_article_links, which has no handler around it; oumaima's loop
\* body has no handler around parse_article
main_raises(e) ==
    /\ e # NoLink
    /\ \/ normalize_url_raises(e)
       \/ /\ script = "oumaima"
          /\ parse_article_raises(normalize_url(e), fetch(normalize_url(e)))

\* the loop body reaches fetch(url), the first statement of parse_article, for
\* the entry whose link field is e
fetches(e) ==
    /\ e # NoLink
    /\ ~normalize_url_raises(e)
    /\ ~link_is_seen_id(normalize_url(e))

\* the loop body for one entry whose link field is e
ProcessEntry ==
    /\ pc = "loop" /\ Len(links) < MaxEntries
    /\ \E e \in FeedLinks :
          /\ replay => (Len(links) < Len(prev_links) /\ e = prev_links[Len(links) + 1])
          /\ e = NoLink => script = "ibtihel"
          /\ links' = Append(links, e)
          /\ IF main_raises(e)
             THEN /\ pc' = "aborted"
                  /\ row' = <<>>
                  /\ log' = log \o (IF fetches(e) THEN <<"fetch">> ELSE <<>>)
                  /\ UNCHANGED <<new_rows, seen_run_ids, seen_run_content>>
             ELSE /\ pc' = pc
                  /\ LET link == normalize_url(e)
                         got  == IF \/ e = NoLink
                                    \/ link_is_seen_id(link)
                                    \/ parse_article_raises(link, fetch(link))
                                 THEN <<>>
                                 ELSE parse_article(link, "World", fetch(link),
                                                    fetch_amp(fetch(link)))
                     IN  /\ row' = got
                         /\ IF got # <<>> /\ accepts(got[1])
                            THEN /\ new_rows' = Append(new_rows, got[1])
                                 /\ seen_run_ids' = seen_run_ids \cup {got[1].id_article}
                                 /\ seen_run_content' =
                                        seen_run_content \cup {got[1].content_hash}
                                 /\ log' = log \o <<"fetch", "sleep">>
                            ELSE /\ log' = log \o (IF fetches(e) THEN <<"fetch">> ELSE <<>>)
                                 /\ UNCHANGED <<new_rows, seen_run_ids, seen_run_content>>
    /\ UNCHANGED <<csv, web, runs, seen_ids, seen_content, prev_links, replay,
                   start_rows, script, parsevars, urlvars>>

\* after the loop: append new_rows to the file
FinalAppend ==
    /\ pc = "loop"
    /\ replay => Len(links) = Len(prev_links)
    /\ csv' = append_rows(csv, new_rows)
    /\ pc' = "done"
    /\ UNCHANGED <<web, runs, seen_ids, seen_content, seen_run_ids, seen_run_content,
                   new_rows, row, links, prev_links, replay, start_rows, log, script,
                   parsevars, urlvars>>

\* environment: the process is stopped (KeyboardInterrupt, kill, power) somewhere
\* between ensure_csv and the final append
Interrupt ==
    /\ pc \in {"ensured", "loop"}
    /\ pc' = "aborted"
    /\ UNCHANGED <<csv, web, runs, seen_ids, seen_content, seen_run_ids, seen_run_content,
                   new_rows, row, links, prev_links, replay, start_rows, log, script,
                   parsevars, urlvars>>

\* the process has ended; its memory is gone
Forget ==
    /\ seen_ids' = {} /\ seen_content' = {} /\ seen_run_ids' = {} /\ seen_run_content' = {}
    /\ new_rows' = <<>> /\ row' = <<>> /\ links' = <<>> /\ start_rows' = <<>>
    /\ log' = <<>>

\* environment: after a completed run, the next run finds the same feed entries
\* and the same pages
SameFeedAgain ==
    /\ pc = "done" /\ runs < MaxRuns
    /\ pc' = "idle"
    /\ replay' = TRUE
    /\ prev_links' = links
    /\ Forget
    /\ UNCHANGED <<csv, web, runs, script, parsevars, urlvars>>

\* environment: the next run finds other feed entries, and perhaps a rewritten story
OtherFeed ==
    /\ pc \in {"done", "aborted"} /\ runs < MaxRuns
    /\ pc' = "idle"
    /\ replay' = FALSE
    /\ prev_links' = <<>>
    /\ web' \in {web, "edited"}
    /\ Forget
    /\ UNCHANGED <<csv, runs, script, parsevars, urlvars>>

Next ==
    \/ EnsureCsv
    \/ LoadKeys
    \/ ProcessEntry
    \/ FinalAppend
    \/ Interrupt
    \/ SameFeedAgain
    \/ OtherFeed

vars == <<urlvars, script, parsevars, mainvars>>

SpecUrl == InitUrl /\ [][NextUrl]_vars

SpecParse == InitParse /\ [][NextParse]_vars

SpecJoin == InitJoin /\ [][NextJoin]_vars

Spec == Init /\ [][Next]_vars

\* the elements of a sequence
Range(q) == { q[i] : i \in 1..Len(q) }

(***************************************************************************)
(* C1: in main() the record parse_article returned for an entry is         *)
(* appended to new_rows if and only if its id_article is in neither        *)
(* seen_ids nor seen_run_ids and its content_hash is in neither            *)
(* seen_content nor seen_run_content; when it is appended both keys are in *)
(* the run-local sets before the next entry is taken.                      *)
(***************************************************************************)
C1_AcceptedIffUnseen ==
    [][(pc = "loop" /\ links' # links) =>
          IF /\ row' # <<>>
             /\ row'[1].id_article \notin (seen_ids \cup seen_run_ids)
             /\ row'[1].content_hash \notin (seen_content \cup seen_run_content)
          THEN /\ new_rows' = Append(new_rows, row'[1])
               /\ row'[1].id_article \in seen_run_ids'
               /\ row'[1].content_hash \in seen_run_content'
          ELSE new_rows' = new_rows]_vars

C1_Witness ==
    /\ pc = "loop" /\ row # <<>> /\ new_rows # <<>>
    /\ row[1] \notin Range(new_rows)
    /\ row[1].content_hash \in seen_run_content
    /\ row[1].id_article \notin (seen_ids \cup seen_run_ids)

(***************************************************************************)
(* C2: the persisted store never holds two rows with the same id_article   *)
(* nor two rows with the same content_hash.                                *)
(***************************************************************************)
C2_StoreKeysUnique ==
    \A i, j \in 1..Len(csv.rows) :
        i < j => /\ csv.rows[i].id_article # csv.rows[j].id_article
                 /\ csv.rows[i].content_hash # csv.rows[j].content_hash

(***************************************************************************)
(* C3: a run that sees the feed entries and the pages of the completed run *)
(* before it accepts no record and leaves the store as it found it.        *)
(***************************************************************************)
C3_SecondRunAcceptsNothing ==
    (pc = "done" /\ replay) => (new_rows = <<>> /\ csv.rows = start_rows)

(***************************************************************************)
(* C10: two records returned by parse_article have different content_hash  *)
(* values unless their titles are equal and the first 4000 characters of   *)
(* their content are equal.                                                *)
(***************************************************************************)
C10_HashIdentifiesTitleAndPrefix ==
    \A r1, r2 \in Range(csv.rows) \cup Range(new_rows) \cup Range(row) :
        r1.content_hash = r2.content_hash =>
            /\ r1.title = r2.title
            /\ TPrefix(r1.content, 4000) = TPrefix(r2.content, 4000)

(***************************************************************************)
(* C4: parse_article returns None or a record whose content (the trimmed   *)
(* text) has at least 200 characters.                                      *)
(***************************************************************************)
C4_ContentAtLeast200 ==
    \A i \in 1..Len(result) : TLen(result[i].content) >= 200

C4_Witness ==
    /\ pstage = "done" /\ result # <<>>
    /\ TLen(result[1].content) < 300

(***************************************************************************)
(* C5: from one stage of the cascade to the next the length of the current *)
(* best text never decreases.                                              *)
(***************************************************************************)
C5_NeverShorter ==
    [][(pstage \in {"readability", "selectors", "jsonld"})
          => TLen(content_text') >= TLen(content_text)]_vars

(***************************************************************************)
(* C6: a stage after readability acts only while the current best text is  *)
(* shorter than 800 characters: once a stage has produced 800 characters   *)
(* or more, no later stage changes the text and no AMP page is fetched.    *)
(***************************************************************************)
C6_StagesOnlyBelow800 ==
    [][(pstage \in {"readability", "selectors", "jsonld"} /\ TLen(content_text) >= 800)
          => (content_text' = content_text /\ amp_fetches' = amp_fetches)]_vars

C6_Witness ==
    /\ pstage = "amp"
    /\ TLen(content_text) >= 800
    /\ page.amp # NoUrl /\ amp_doc # <<>>
    /\ amp_fetches = 0
    /\ page.jsonld # <<>>

(***************************************************************************)
(* C7: normalize_url is idempotent: normalising an already normalised URL  *)
(* gives the same string.                                                  *)
(***************************************************************************)
C7_Idempotent == (n1 # NoUrl /\ n2 # NoUrl) => n2 = n1

(***************************************************************************)
(* C8: two URLs that differ only in the presence, values or position of    *)
(* denylisted tracking parameters, or in their fragment, normalise to the  *)
(* same string.                                                            *)
(***************************************************************************)
C8_TrackingInsensitive == (n1 # NoUrl /\ nv # NoUrl) => nv = n1

C8_Witness ==
    /\ n1 # NoUrl /\ nv # NoUrl
    /\ Render(variant) # Render(url)
    /\ variant.fields # url.fields
    /\ variant.frag # url.frag

(***************************************************************************)
(* C9: the output query is exactly the input sequence of (key, value)      *)
(* pairs with the denylisted pairs removed: order, repeated keys and blank *)
(* values are kept.                                                        *)
(***************************************************************************)
C9_QueryPairsKept ==
    n1 # NoUrl =>
        parse_qsl(urlparse(n1).query)
          = SelectSeq(parse_qsl(urlparse(Render(url)).query),
                      LAMBDA kv : kv[1] \notin STRIP_QUERY_PARAMS)

(***************************************************************************)
(* C11: a failure while one candidate is processed (fetch error, or an     *)
(* exception raised while its link or page is normalised, parsed or        *)
(* extracted) skips only that candidate: the loop goes on to the next      *)
(* entry, and the records accepted so far are kept for the final append.   *)
(***************************************************************************)
C11_FailureSkipsOnlyCandidate ==
    [][(pc = "loop" /\ links' # links) =>
          /\ pc' = "loop"
          /\ Len(new_rows') >= Len(new_rows)
          /\ SubSeq(new_rows', 1, Len(new_rows)) = new_rows]_vars

(***************************************************************************)
(* C12: in every run there is a pause (time.sleep(PAUSE_SECONDS)) between  *)
(* any two consecutive article-page fetches of main(), whatever came of    *)
(* the earlier fetch.                                                      *)
(***************************************************************************)
C12_PauseBetweenFetches ==
    \A i \in 1..(Len(log) - 1) : ~(log[i] = "fetch" /\ log[i + 1] = "fetch")

(***************************************************************************)
(* C13: the store is append-only and written at most once per run.  The    *)
(* file changes only when ensure_csv writes the header of an absent or     *)
(* empty file, and when the single append after the loop adds new_rows     *)
(* behind the rows already there; while the loop runs the rows are those   *)
(* the run found, so an interrupted run leaves the file as ensure_csv left *)
(* it.                                                                     *)
(***************************************************************************)
C13_AppendOnlyOncePerRun ==
    [][/\ (csv' # csv) =>
             \/ /\ pc = "idle" /\ pc' = "ensured"
                /\ csv.state \in {"absent", "empty"}
                /\ csv' = [state |-> "table", rows |-> <<>>]
             \/ /\ pc = "loop" /\ pc' = "done"
                /\ new_rows # <<>>
                /\ csv' = [csv EXCEPT !.rows = csv.rows \o new_rows]
       /\ (pc' = "loop") => (csv'.rows = start_rows')
       /\ (pc \in {"ensured", "loop"} /\ pc' = "aborted") => (csv' = csv)]_vars

\* a second run has appended its records behind the rows of the first
C13_Witness ==
    /\ pc = "done" /\ runs = 2
    /\ start_rows # <<>> /\ new_rows # <<>>
    /\ csv.rows = start_rows \o new_rows

\* the href the page declares as canonical, normalised; NoUrl is the empty string
DeclaredCanonical == normalize_url(page.canonical)

AmpFailed == page.amp # NoUrl /\ amp_doc = <<>> /\ amp_fetches = 1

(***************************************************************************)
(* C15: when the AMP stage is entered and the fetch or the parsing of the  *)
(* AMP page fails, the failure is swallowed: the stage ends with the text  *)
(* it started with, no exception leaves parse_article, and the 200         *)
(* character gate is then applied to that text.                            *)
(***************************************************************************)
C15_AmpFailureSwallowed ==
    [][/\ (pstage = "jsonld" /\ amp_requested(page, content_text) /\ amp_doc = <<>>) =>
             (pstage' = "amp" /\ content_text' = content_text)
       /\ (pstage = "amp" /\ AmpFailed) =>
             /\ pstage' = "done"
             /\ content_text' = content_text
             /\ (result' = <<>>) <=> (TLen(TStrip(content_text)) < MIN_CONTENT)
             /\ \A i \in 1..Len(result') : result'[i].content = TStrip(content_text)]_vars

\* the AMP page did not answer and the text of the earlier stages was returned
C15_Witness ==
    /\ pstage = "done" /\ AmpFailed
    /\ result # <<>>
    /\ TLen(content_text) < CASCADE_THRESHOLD

\* a class attribute that holds one of the markers
HasMarker(classes) ==
    \E i \in 1..Len(classes) : \E m \in BadMarkers : m \in MarkersIn(classes[i])

\* the paragraph passes the three tests of the paragraph-cleaning rule
Survives(p) ==
    /\ TLen(TStrip(p.txt)) >= 3
    /\ ~HasMarker(p.cls)
    /\ \A i \in 1..Len(p.ancs) :
          /\ p.ancs[i].name \notin
                {"figure", "figcaption", "aside", "header", "footer", "nav"}
          /\ ~HasMarker(p.ancs[i].cls)

(***************************************************************************)
(* C16: clean_join returns, in document order and joined by a blank line,  *)
(* exactly the trimmed texts of the paragraphs that have at least 3        *)
(* characters of trimmed text, no marker in their own class, and no        *)
(* ancestor that is a figure, figcaption, aside, header, footer or nav or  *)
(* has a marker in its class.                                              *)
(***************************************************************************)
C16_CleanJoinExact ==
    (pstage = "joined") =>
        LET kept == SelectSeq(page.paras, Survives)
        IN  content_text =
               TJoin([i \in 1..Len(kept) |-> TStrip(kept[i].txt)], Rep("\n", 2))

\* a long paragraph of class advert-box is left out, the one after it is kept
C16_Witness ==
    /\ pstage = "joined"
    /\ Len(page.paras) = 2
    /\ page.paras[1].cls = <<"story", "advert-box">> /\ TLen(page.paras[1].txt) = 400
    /\ content_text = Rep("z", 3)

====
